---------------------------- MODULE Spec2Model ----------------------------
(***************************************************************************)
(* Model of the batching / translation pipeline of srt_translator.py.      *)
(*                                                                         *)
(* Strings are modelled as sequences of whitespace-separated words, so     *)
(* str.strip() and str.split() act on the word sequence: "" is <<>>, and   *)
(* joining with " " is concatenation.  A reply of the completion client    *)
(* is the sequence of its lines; a line is the record                      *)
(*     [mark |-> it starts with "[" and contains "]",                      *)
(*      body |-> the words after the first "]" (the whole line when        *)
(*               mark is FALSE)].                                          *)
(* The failure sentinel "[翻譯失敗]" is the word FailMark.                  *)
(***************************************************************************)
EXTENDS Integers, Sequences, FiniteSets, TLC

VARIABLES
    batch_files,      \* SRTTranslatorGUI.batch_files: list of file_info objects (ids)
    files,            \* the file_info dicts, by object id
    threads,          \* the background threads started by the GUI
    batch_words_var,  \* SRTTranslatorGUI.batch_words_var (raw configuration)
    arg,              \* input of the pure function under test (pure specifications)
    res               \* its result

vars == <<batch_files, files, threads, batch_words_var, arg, res>>

-----------------------------------------------------------------------------
(* Bounds of the model *)

MaxFiles == 2        \* file objects ever created
MaxEntries == 2      \* entries of a file in the pipeline
MaxThreads == 2      \* background threads alive at once
MaxLines == 2        \* lines of a batch reply
MaxShared == 2       \* files plus entries while two or more threads are alive
MaxTotal == 2        \* entries of all the files of the list together
MaxLen == 4          \* entries of an input of create_batches
MaxW == 4            \* largest word count / word budget of an input of create_batches
MaxCtx == 11         \* entries of an input of get_context
MaxReply == 4        \* lines of a reply given to the parser of translate_batch
MaxK == 3            \* entries of the batch the reply is parsed for
MaxDocEntries == 2   \* entries of a document that is serialized and parsed
MaxTextLines == 3    \* lines of the text given to the constructor of an entry
MaxRemoved == 1      \* files removed from the list
MaxPassEntries == 3  \* entries of the file of a single pass

-----------------------------------------------------------------------------
(* Strings *)

FailMark == "[FAIL]"
IdxMark == "[i]"

Words(n) == [i \in 1..n |-> "w"]

SrcTags == <<"s1", "s2", "s3", "s4", "s5">>

\* a source text of n >= 1 words whose first word names the entry
SrcText(pos, n) == <<SrcTags[pos]>> \o Words(n - 1)

count_words(text) == Len(text)

starts_with_fail(s) == s # <<>> /\ s[1] = FailMark

sentinel(text) == <<FailMark>> \o text

\* lines 18-23 (text is already stripped in this representation)
SRTEntry(index, start_time, end_time, text) ==
    [index |-> index, start_time |-> start_time, end_time |-> end_time,
     text |-> text, translated_text |-> <<>>]

-----------------------------------------------------------------------------
(* BatchTranslator.create_batches *)

\* mutant: an empty current batch is closed too
closes_batch_empty(current_word_count, entry_words, max_words, current_batch) ==
    current_word_count + entry_words > max_words

\* mutant: the batch is closed only once it is over the budget
closes_batch_late(current_word_count, entry_words, max_words, current_batch) ==
    current_word_count > max_words /\ current_batch # <<>>

\* mutant: the batch is closed when the entry would fill the budget exactly
closes_batch_early(current_word_count, entry_words, max_words, current_batch) ==
    current_word_count + entry_words >= max_words /\ current_batch # <<>>

\* line 244: the current batch is closed before this entry
closes_batch(current_word_count, entry_words, max_words, current_batch) ==
    current_word_count + entry_words > max_words /\ current_batch # <<>>

RECURSIVE create_batches_loop(_, _, _, _, _, _)
create_batches_loop(entries, i, max_words, batches, current_batch, current_word_count) ==
    IF i > Len(entries)
    THEN IF current_batch # <<>> THEN Append(batches, current_batch) ELSE batches
    ELSE LET entry == entries[i]
             entry_words == count_words(entry.text)
         IN IF closes_batch(current_word_count, entry_words, max_words, current_batch)
            THEN create_batches_loop(entries, i + 1, max_words,
                                     Append(batches, current_batch), <<entry>>, entry_words)
            ELSE create_batches_loop(entries, i + 1, max_words, batches,
                                     Append(current_batch, entry),
                                     current_word_count + entry_words)

create_batches(entries, max_words) ==
    create_batches_loop(entries, 1, max_words, <<>>, <<>>, 0)

-----------------------------------------------------------------------------
(* BatchTranslator.get_context *)

ContextWindow == 10   \* line 261: range(max(0, current_start_idx - 10), ...)
ContextMax == 5       \* line 262: context_count < 5, and line 266: [-5:]

Max(a, b) == IF a > b THEN a ELSE b

\* context_entries[-5:]
last_entries(context_entries) ==
    SubSeq(context_entries, Max(1, Len(context_entries) - ContextMax + 1),
           Len(context_entries))

\* " ".join(...)
RECURSIVE join_texts(_)
join_texts(texts) ==
    IF texts = <<>> THEN <<>> ELSE Head(texts) \o join_texts(Tail(texts))

\* lines 261-264: i is the 0-based position, all_entries[i + 1] the entry
RECURSIVE get_context_loop(_, _, _, _, _)
get_context_loop(all_entries, i, current_start_idx, context_entries, context_count) ==
    IF i >= current_start_idx THEN context_entries
    ELSE IF all_entries[i + 1].translated_text # <<>> /\ context_count < ContextMax
         THEN get_context_loop(all_entries, i + 1, current_start_idx,
                               Append(context_entries, all_entries[i + 1].translated_text),
                               context_count + 1)
         ELSE get_context_loop(all_entries, i + 1, current_start_idx,
                               context_entries, context_count)

\* lines 257-266
get_context(all_entries, current_start_idx) ==
    LET context_entries ==
            get_context_loop(all_entries, Max(0, current_start_idx - ContextWindow),
                             current_start_idx, <<>>, 0)
    IN IF context_entries # <<>> THEN join_texts(last_entries(context_entries)) ELSE <<>>

-----------------------------------------------------------------------------
(* BatchTranslator.translate_batch: parsing of the reply (lines 278-325) *)

Line(mark, body) == [mark |-> mark, body |-> body]

\* the stripped line as a string
line_text(l) == IF l.mark THEN <<IdxMark>> \o l.body ELSE l.body

\* "if not line: continue"
is_blank(l) == line_text(l) = <<>>

\* lines 282-303: the primary parse
RECURSIVE primary_parse_loop(_, _, _, _)
primary_parse_loop(lines, i, translated_lines, current_translation) ==
    IF i > Len(lines)
    THEN IF current_translation # <<>>
         THEN Append(translated_lines, current_translation)
         ELSE translated_lines
    ELSE LET l == lines[i] IN
         IF is_blank(l)
         THEN primary_parse_loop(lines, i + 1, translated_lines, current_translation)
         ELSE IF l.mark
              THEN primary_parse_loop(lines, i + 1,
                       IF current_translation # <<>>
                       THEN Append(translated_lines, current_translation)
                       ELSE translated_lines,
                       l.body)
              ELSE primary_parse_loop(lines, i + 1, translated_lines,
                       IF current_translation # <<>>
                       THEN current_translation \o line_text(l)
                       ELSE line_text(l))

primary_parse(lines) == primary_parse_loop(lines, 1, <<>>, <<>>)

\* a variant of the fallback parse that keeps the empty lines as units
alt_parse_keep_blank(lines) ==
    [k \in 1..Len(lines) |-> IF lines[k].mark THEN lines[k].body ELSE line_text(lines[k])]

\* lines 311-313: the fallback parse, one unit per non-empty line
RECURSIVE alt_parse(_)
alt_parse(lines) ==
    IF lines = <<>> THEN <<>>
    ELSE LET l == Head(lines) IN
         IF is_blank(l) THEN alt_parse(Tail(lines))
         ELSE <<(IF l.mark THEN l.body ELSE line_text(l))>> \o alt_parse(Tail(lines))

\* lines 322-323: pad with the sentinel and the source text
RECURSIVE pad_lines(_, _)
pad_lines(translated_lines, batch) ==
    IF Len(translated_lines) < Len(batch)
    THEN pad_lines(Append(translated_lines,
                          sentinel(batch[Len(translated_lines) + 1].text)), batch)
    ELSE translated_lines

\* line 325: translated_lines[:len(batch)]
truncate_lines(translated_lines, batch) ==
    SubSeq(translated_lines, 1, IF Len(translated_lines) < Len(batch)
                                THEN Len(translated_lines) ELSE Len(batch))

\* mutant: the fallback parse is never accepted
alt_accepted_never(alt_lines, batch) == FALSE

\* lines 315-319: the fallback parse is accepted
alt_accepted(alt_lines, batch) == Len(alt_lines) = Len(batch)

\* lines 278-325: [ok |-> a parse was accepted, lines |-> the list returned];
\* ok = FALSE is the return through translate_individually (line 319)
align(lines, batch) ==
    LET translated_lines == primary_parse(lines)
        alt_lines == alt_parse(lines)
    IN IF Len(translated_lines) # Len(batch)
       THEN IF alt_accepted(alt_lines, batch)
            THEN [ok |-> TRUE, lines |-> truncate_lines(pad_lines(alt_lines, batch), batch)]
            ELSE [ok |-> FALSE, lines |-> <<>>]
       ELSE [ok |-> TRUE,
             lines |-> truncate_lines(pad_lines(translated_lines, batch), batch)]

\* the reply as one string, as translate_individually and the retry use it
RECURSIVE flatten(_)
flatten(lines) ==
    IF lines = <<>> THEN <<>> ELSE line_text(Head(lines)) \o flatten(Tail(lines))

-----------------------------------------------------------------------------
(* The completion client: APITranslator.translate_text either raises or    *)
(* returns the stripped text of the reply                                  *)

Raised == [raised |-> TRUE, lines |-> <<>>]
Reply(lines) == [raised |-> FALSE, lines |-> lines]

LineKinds == {Line(TRUE, <<"a">>), Line(TRUE, <<>>)}

LineSeqs(n) == UNION {[1..m -> LineKinds] : m \in 0..n}

\* what the client may answer to a batch prompt
BatchOutcomes == {Raised} \cup {Reply(l) : l \in LineSeqs(MaxLines)}

\* what the client may answer to the prompt of one entry
IndivOutcomes == {Raised, Reply(<<>>), Reply(<<Line(FALSE, <<"a">>)>>)}

\* line 269: batch_text
RECURSIVE batch_text(_)
batch_text(batch) ==
    IF batch = <<>> THEN <<>>
    ELSE <<IdxMark>> \o Head(batch).text \o batch_text(Tail(batch))

\* a call of translate_text: its kind, the text sent, whether it raised
Call(kind, text, outcome) == [kind |-> kind, text |-> text, raised |-> outcome.raised]

\* no reply is being parsed
NoReply == [raised |-> FALSE, lines |-> <<>>, fresh |-> FALSE]

\* the reply translate_batch has just received
Fresh(outcome) == [raised |-> outcome.raised, lines |-> outcome.lines, fresh |-> TRUE]

-----------------------------------------------------------------------------
(* BatchTranslator.translate_batch / translate_individually, by call *)

\* lines 274-330: what translate_batch does with the outcome of the batch call:
\* [ok |-> TRUE, lines] is returned, ok = FALSE continues in translate_individually
batch_call_result(outcome, batch) ==
    IF outcome.raised
    THEN [ok |-> FALSE, lines |-> <<>>]
    ELSE align(outcome.lines, batch)

\* mutant: the exception of the client is not caught
indiv_result_uncaught(outcome, entry) ==
    IF outcome.raised
    THEN [raised |-> TRUE, value |-> <<>>]
    ELSE [raised |-> FALSE, value |-> flatten(outcome.lines)]

\* mutant: a failed call leaves the entry without the sentinel
indiv_result_unmarked(outcome, entry) ==
    IF outcome.raised
    THEN [raised |-> FALSE, value |-> <<>>]
    ELSE [raised |-> FALSE, value |-> flatten(outcome.lines)]

\* lines 336-342: one entry of translate_individually;
\* raised = TRUE would leave translate_individually by the exception
indiv_result(outcome, entry) ==
    IF outcome.raised
    THEN [raised |-> FALSE, value |-> sentinel(entry.text)]
    ELSE [raised |-> FALSE, value |-> flatten(outcome.lines)]

\* lines 946, 677: the translation counts as a success
is_success(translation) == translation # <<>> /\ ~starts_with_fail(translation)

-----------------------------------------------------------------------------
(* File jobs: the file_info dicts of SRTTranslatorGUI.batch_files *)

Pending == "Pending"                  \* '未處理'
InProgress == "InProgress"            \* '處理中'
Done == "Done"                        \* '完成'
PartiallyFailed == "PartiallyFailed"  \* '部分失敗'
Failed == "Failed"                    \* '失敗'

Terminal == {Done, PartiallyFailed, Failed}

\* words of every entry text of the pipeline
EntryWords == 7

\* how the blocks of a file are numbered: from 1 without gaps, or with gaps
IndexSchemes == {"from1", "gaps"}

entry_index(scheme, p) == IF scheme = "from1" THEN p ELSE 2 * p + 1

\* the files the user has: those of up to one block are numbered from 1,
\* the longer ones with gaps
file_scheme(n) == IF n <= 1 THEN "from1" ELSE "gaps"

TimeTags == <<"00:01", "00:02", "00:03", "00:04", "00:05", "00:06">>

\* SRTParser.parse_srt result of a file of n blocks, as add_file_to_batch keeps it
FileEntries(n, scheme) ==
    [p \in 1..n |-> SRTEntry(entry_index(scheme, p), TimeTags[p], TimeTags[p + 1],
                             SrcText(p, EntryWords))]

\* lines 56-61: SRTParser.entries_to_srt, block by block: the text of a block
\* is the translation when there is one and the source text otherwise
srt_block(entry) ==
    [index |-> entry.index, start_time |-> entry.start_time, end_time |-> entry.end_time,
     text |-> IF entry.translated_text # <<>> THEN entry.translated_text ELSE entry.text]

entries_to_srt(entries) == [p \in 1..Len(entries) |-> srt_block(entries[p])]

\* the file at output_path: not written yet, or the blocks last written
NoOutput == [written |-> FALSE, blocks |-> <<>>]

Written(blocks) == [written |-> TRUE, blocks |-> blocks]

\* lines 968-973 and 707-713: open(output_path, 'w') and f.write either
\* succeed or raise, and the exception is only printed
write_output(old, entries, ok) == IF ok THEN Written(entries_to_srt(entries)) ELSE old

\* lines 503-510; output is the file at the job's output_path
file_info(entries) ==
    [status |-> Pending, success |-> 0, failed |-> 0,
     entries |-> entries, failed_indices |-> <<>>, output |-> NoOutput]

\* lines 912-919: the word budget from the configuration
clamp_max_words(cfg) ==
    IF ~cfg.valid THEN 100
    ELSE IF cfg.n < 10 THEN 10
    ELSE IF cfg.n > 500 THEN 500
    ELSE cfg.n

ConfigValues == {[valid |-> TRUE, n |-> 3], [valid |-> FALSE, n |-> 0]}

\* the entry objects of a file, as the batches refer to them
entry_refs(entries) ==
    [p \in 1..Len(entries) |->
        [ref |-> p, index |-> entries[p].index, text |-> entries[p].text]]

Min(a, b) == IF a < b THEN a ELSE b

count_success(seq, n) == Cardinality({k \in 1..n : is_success(seq[k])})

is_failure(translation) == ~is_success(translation)

count_failed(seq, n) == Cardinality({k \in 1..n : is_failure(seq[k])})

\* a variant that records positions counted from 1
failed_positions_one_based(translations, k, n, entry_idx) ==
    LET failing == {j \in k..n : ~is_success(translations[j])}
        nth[m \in 0..(n + 1)] ==
            IF m > n THEN <<>>
            ELSE (IF m \in failing THEN <<entry_idx + m>> ELSE <<>>) \o nth[m + 1]
    IN nth[k]

\* lines 948-950: the positions appended to failed_indices by one batch
RECURSIVE failed_positions(_, _, _, _)
failed_positions(translations, k, n, entry_idx) ==
    IF k > n THEN <<>>
    ELSE (IF is_success(translations[k]) THEN <<>> ELSE <<entry_idx + k - 1>>)
         \o failed_positions(translations, k + 1, n, entry_idx)

\* a variant that stores the translation in the text field
write_translations_in_text(entries, batch, translations) ==
    LET n == Min(Len(batch), Len(translations)) IN
    [p \in 1..Len(entries) |->
        IF \E k \in 1..n : batch[k].ref = p
        THEN [entries[p] EXCEPT !.text =
                 translations[CHOOSE k \in 1..n : batch[k].ref = p]]
        ELSE entries[p]]

\* lines 944-945: the entries after zip(batch, translations) is written
write_translations(entries, batch, translations) ==
    LET n == Min(Len(batch), Len(translations)) IN
    [p \in 1..Len(entries) |->
        IF \E k \in 1..n : batch[k].ref = p
        THEN [entries[p] EXCEPT !.translated_text =
                 translations[CHOOSE k \in 1..n : batch[k].ref = p]]
        ELSE entries[p]]

\* lines 955-959: the entries after a batch that raised
write_batch_failed(entries, batch) ==
    [p \in 1..Len(entries) |->
        IF \E k \in 1..Len(batch) : batch[k].ref = p
        THEN [entries[p] EXCEPT !.translated_text = sentinel(entries[p].text)]
        ELSE entries[p]]

-----------------------------------------------------------------------------
(* Threads *)

Idle == [kind |-> "idle"]

Threads == 1..MaxThreads

IsIdle(t) == threads[t].kind = "idle"

IsRun(t) == threads[t].kind = "run"

IsRetry(t) == threads[t].kind = "retry"

\* the slot of the next thread started
Live == Cardinality({t \in Threads : ~IsIdle(t)})

\* a thread can be started within the bounds of the model
\* the number of file objects plus the number of their entries
RECURSIVE size_of(_)
size_of(fs) == IF fs = <<>> THEN 0 ELSE 1 + Len(Head(fs).entries) + size_of(Tail(fs))

Size == size_of(files)

\* a thread can be started within the bounds of the model
CanStart == (\E t \in Threads : IsIdle(t)) /\ (Live = 0 \/ Size <= MaxShared)

FreeSlot == CHOOSE t \in Threads : IsIdle(t) /\ \A u \in Threads : u < t => ~IsIdle(u)

\* line 839
NoStats == [success |-> 0, failed |-> 0, total_entries |-> 0]

\* a variant of the loop that passes over the file after this one
after_file_skips(i) == i + 2

\* line 841: enumerate goes on to the next file of the list
after_file(i) == i + 1

\* a worker between two files (lines 841, 891); listed is the list when the
\* run started and processed the files the loop has taken so far
RunThread(i, total_files, overall_stats, listed, processed) ==
    [kind |-> "run", pc |-> "next", i |-> i, total_files |-> total_files,
     overall_stats |-> overall_stats, listed |-> listed, processed |-> processed,
     file |-> 0, batches |-> <<>>, b |-> 0, results |-> <<>>, raised |-> FALSE,
     calls |-> <<>>, reply |-> NoReply, entry_idx |-> 0, success |-> 0, failed |-> 0,
     failed_indices |-> <<>>, pass_results |-> <<>>, context |-> <<>>]

PureIdle == arg = <<>> /\ res = <<>>

Init ==
    /\ batch_files = <<>>
    /\ files = <<>>
    /\ threads = [t \in Threads |-> Idle]
    /\ batch_words_var \in ConfigValues
    /\ PureIdle

-----------------------------------------------------------------------------
(* Foreground: add_file_to_batch and start_translation *)

UnchangedPure == UNCHANGED <<arg, res>>

\* lines 487-518: a new path whose content parses to n entries
AddFile(n, scheme) ==
    /\ Len(files) < MaxFiles
    /\ Live <= 1 \/ Size + 1 + n <= MaxShared
    /\ Size - Len(files) + n <= MaxTotal
    /\ scheme = file_scheme(n)
    /\ files' = Append(files, file_info(FileEntries(n, scheme)))
    /\ batch_files' = Append(batch_files, Len(files) + 1)
    /\ UNCHANGED <<threads, batch_words_var>>
    /\ UnchangedPure

\* lines 817-828: nothing but an empty list keeps a second worker from starting
StartTranslation ==
    /\ batch_files # <<>>
    /\ CanStart
    /\ threads' = [threads EXCEPT ![FreeSlot] = RunThread(1, Len(batch_files), NoStats, batch_files, <<>>)]
    /\ UNCHANGED <<batch_files, files, batch_words_var>>
    /\ UnchangedPure

-----------------------------------------------------------------------------
(* batch_translate_worker and translate_single_file *)

\* lines 841-850 and, after the last file, line 891
RunNextFile(t) ==
    /\ IsRun(t) /\ threads[t].pc = "next"
    /\ IF threads[t].i <= Len(batch_files)
       THEN LET f == batch_files[threads[t].i] IN
            /\ files' = [files EXCEPT ![f].status = InProgress]
            /\ threads' = [threads EXCEPT ![t].pc = "entries", ![t].file = f,
                                         ![t].processed = Append(@, f)]
       ELSE /\ threads' = [threads EXCEPT ![t].pc = "report"]
            /\ UNCHANGED files
    /\ UNCHANGED <<batch_files, batch_words_var>>
    /\ UnchangedPure

\* lines 852-861 (no entries) and 906-926 (the batches of the file)
RunCheckEntries(t) ==
    /\ IsRun(t) /\ threads[t].pc = "entries"
    /\ LET f == threads[t].file
           entries == files[f].entries
       IN IF entries = <<>>
          THEN /\ files' = [files EXCEPT ![f].status = Failed]
               /\ threads' = [threads EXCEPT ![t] =
                      RunThread(after_file(@.i), @.total_files, @.overall_stats,
                                @.listed, @.processed)]
          ELSE /\ threads' = [threads EXCEPT
                      ![t].pc = "batch",
                      ![t].overall_stats.total_entries = @ + Len(entries),
                      ![t].batches = create_batches(entry_refs(entries),
                                                    clamp_max_words(batch_words_var)),
                      ![t].b = 1]
               /\ UNCHANGED files
    /\ UNCHANGED <<batch_files, batch_words_var>>
    /\ UnchangedPure

\* a variant that goes on to the next batch without the pacing delay
finish_batch_nosleep(th, translations) ==
    LET batch == th.batches[th.b]
        n == Min(Len(batch), Len(translations))
        more == th.b < Len(th.batches)
    IN [th EXCEPT
           !.pc = IF more THEN "batch" ELSE "save",
           !.b = IF more THEN @ + 1 ELSE @,
           !.results = translations,
           !.success = @ + count_success(translations, n),
           !.failed = @ + count_failed(translations, n),
           !.failed_indices = @ \o failed_positions(translations, 1, n, th.entry_idx),
           !.entry_idx = @ + n,
           !.pass_results = @ \o SubSeq(translations, 1, n)]

\* a variant whose position counter advances by one per batch
finish_batch_counts_batches(th, translations) ==
    LET batch == th.batches[th.b]
        n == Min(Len(batch), Len(translations))
    IN [th EXCEPT
           !.pc = "sleep",
           !.results = translations,
           !.success = @ + count_success(translations, n),
           !.failed = @ + count_failed(translations, n),
           !.failed_indices = @ \o failed_positions(translations, 1, n, th.entry_idx),
           !.entry_idx = @ + 1,
           !.pass_results = @ \o SubSeq(translations, 1, n)]

\* lines 944-951: the translations of a batch are written and counted
finish_batch(th, translations) ==
    LET batch == th.batches[th.b]
        n == Min(Len(batch), Len(translations))
    IN [th EXCEPT
           !.pc = "sleep",
           !.results = translations,
           !.success = @ + count_success(translations, n),
           !.failed = @ + count_failed(translations, n),
           !.failed_indices = @ \o failed_positions(translations, 1, n, th.entry_idx),
           !.entry_idx = @ + n,
           !.pass_results = @ \o SubSeq(translations, 1, n)]

\* lines 953-959: translate_batch raised
fail_batch(th) ==
    LET batch == th.batches[th.b]
        n == Len(batch)
    IN [th EXCEPT
           !.pc = "sleep",
           !.raised = TRUE,
           !.results = <<>>,
           !.failed = @ + n,
           !.failed_indices = @ \o [k \in 1..n |-> th.entry_idx + k - 1],
           !.entry_idx = @ + n,
           !.pass_results = @ \o [k \in 1..n |-> sentinel(batch[k].text)]]

\* lines 940-942 and 274-325: the context of the batch, the batch call and the
\* parse of its reply
RunBatchCall(t, outcome) ==
    /\ IsRun(t) /\ threads[t].pc = "batch"
    /\ LET th == threads[t]
           f == th.file
           batch == th.batches[th.b]
           r == batch_call_result(outcome, batch)
           called == [th EXCEPT !.calls = <<Call("batch", batch_text(batch), outcome)>>,
                                !.reply = Fresh(outcome),
                                !.results = <<>>, !.raised = FALSE,
                                !.context = get_context(files[f].entries, th.entry_idx)]
       IN IF r.ok
          THEN /\ threads' = [threads EXCEPT ![t] = finish_batch(called, r.lines)]
               /\ files' = [files EXCEPT ![f].entries =
                               write_translations(@, batch, r.lines)]
          ELSE /\ threads' = [threads EXCEPT ![t] = [called EXCEPT !.pc = "indiv"]]
               /\ UNCHANGED files
    /\ UNCHANGED <<batch_files, batch_words_var>>
    /\ UnchangedPure

\* lines 332-343: one call of translate_individually; after the last one the
\* list is returned to translate_single_file (lines 944-959)
RunIndivCall(t, outcome) ==
    /\ IsRun(t) /\ threads[t].pc = "indiv"
    /\ LET th == threads[t]
           f == th.file
           batch == th.batches[th.b]
           entry == batch[Len(th.results) + 1]
           r == indiv_result(outcome, entry)
           called == [th EXCEPT !.calls = Append(@, Call("indiv", entry.text, outcome)),
                                !.reply = NoReply]
           results == Append(th.results, r.value)
       IN IF r.raised
          THEN /\ threads' = [threads EXCEPT ![t] = fail_batch(called)]
               /\ files' = [files EXCEPT ![f].entries = write_batch_failed(@, batch)]
          ELSE IF Len(results) = Len(batch)
          THEN /\ threads' = [threads EXCEPT ![t] = finish_batch(called, results)]
               /\ files' = [files EXCEPT ![f].entries =
                               write_translations(@, batch, results)]
          ELSE /\ threads' = [threads EXCEPT ![t] = [called EXCEPT !.results = results]]
               /\ UNCHANGED files
    /\ UNCHANGED <<batch_files, batch_words_var>>
    /\ UnchangedPure

\* lines 961-962: the pacing delay, then the next batch or the end of the loop
RunSleep(t) ==
    /\ IsRun(t) /\ threads[t].pc = "sleep"
    /\ LET more == threads[t].b < Len(threads[t].batches) IN
       threads' = [threads EXCEPT
           ![t].pc = IF more THEN "batch" ELSE "save",
           ![t].reply = NoReply,
           ![t].b = IF more THEN @ + 1 ELSE @]
    /\ UNCHANGED <<batch_files, files, batch_words_var>>
    /\ UnchangedPure

\* a variant that tolerates one failed entry
final_status_by_success(failed) == IF failed <= 1 THEN Done ELSE PartiallyFailed

\* lines 873-878: the status at the end of a pass
final_status(failed) == IF failed = 0 THEN Done ELSE PartiallyFailed

\* lines 964-975 and 865-882: the output is written, the statistics and the
\* status of the file are set
RunSave(t, ok) ==
    /\ IsRun(t) /\ threads[t].pc = "save"
    /\ LET th == threads[t]
           f == th.file
       IN /\ files' = [files EXCEPT
                 ![f].output = write_output(@, files[f].entries, ok),
                 ![f].success = th.success,
                 ![f].failed = th.failed,
                 ![f].failed_indices = th.failed_indices,
                 ![f].status = final_status(th.failed)]
          /\ threads' = [threads EXCEPT ![t] =
                 RunThread(after_file(th.i), th.total_files,
                           [th.overall_stats EXCEPT !.success = @ + th.success,
                                                    !.failed = @ + th.failed],
                           th.listed, th.processed)]
    /\ UNCHANGED <<batch_files, batch_words_var>>
    /\ UnchangedPure

\* lines 891-900: the result of the run is reported and the thread ends
RunReport(t) ==
    /\ IsRun(t) /\ threads[t].pc = "report"
    /\ threads' = [threads EXCEPT ![t] = Idle]
    /\ UNCHANGED <<batch_files, files, batch_words_var>>
    /\ UnchangedPure

-----------------------------------------------------------------------------
(* Retry of the failed entries and retranslation (context menu) *)

\* line 642: the thread retry_failed_entries starts, before it has looked up
\* its file
RetryStarting(file_index) == [kind |-> "starting", file_index |-> file_index]

IsStarting(t) == threads[t].kind = "starting"

\* a variant that retries every entry of the file
RetryThread_every_entry(f, failed_indices) ==
    [kind |-> "retry", pc |-> IF files[f].entries = <<>> THEN "finish" ELSE "loop",
     file |-> f, failed_indices |-> [k \in 1..Len(files[f].entries) |-> k - 1],
     j |-> 1, retry_success |-> 0, retry_failed |-> 0, new_failed_indices |-> <<>>,
     calls |-> <<>>]

\* lines 655-667: the retry thread once it has its file and its copy of
\* failed_indices
RetryThread(f, failed_indices) ==
    [kind |-> "retry", pc |-> IF failed_indices = <<>> THEN "finish" ELSE "loop",
     file |-> f, failed_indices |-> failed_indices,
     j |-> 1, retry_success |-> 0, retry_failed |-> 0, new_failed_indices |-> <<>>,
     calls |-> <<>>]

\* lines 566-568 (the menu offers the retry) and 626-642
RetryFailedEntries(i) ==
    /\ i \in 1..Len(batch_files)
    /\ LET f == batch_files[i] IN
       /\ files[f].status = PartiallyFailed
       /\ files[f].failed_indices # <<>>
       /\ files[f].success < Len(files[f].entries)   \* cap of the counter
       /\ CanStart
       /\ threads' = [threads EXCEPT ![FreeSlot] = RetryStarting(i)]
    /\ UNCHANGED <<batch_files, files, batch_words_var>>
    /\ UnchangedPure

\* lines 646-663: the thread looks up the file at its position of the list as
\* the list is now and copies its failed_indices; a position past the end
\* raises, and the thread returns
RetryStart(t) ==
    /\ IsStarting(t)
    /\ LET i == threads[t].file_index IN
       threads' = [threads EXCEPT ![t] =
           IF i <= Len(batch_files)
           THEN RetryThread(batch_files[i], files[batch_files[i]].failed_indices)
           ELSE Idle]
    /\ UNCHANGED <<batch_files, files, batch_words_var>>
    /\ UnchangedPure

\* a call of the retry: the position retried, the text sent, the outcome
RetryCallOf(idx, text, outcome) == [idx |-> idx, text |-> text, outcome |-> outcome]

\* lines 672-687: the outcome of the call for one failed entry:
\* the text written to the entry and whether it counts as a success
retry_result(outcome, entry) ==
    IF outcome.raised
    THEN [text |-> sentinel(entry.text), success |-> FALSE]
    ELSE [text |-> flatten(outcome.lines), success |-> is_success(flatten(outcome.lines))]

\* lines 669-687: one iteration of the loop over the copied failed_indices
RetryCall(t, outcome) ==
    /\ IsRetry(t) /\ threads[t].pc = "loop"
    /\ LET th == threads[t]
           f == th.file
           idx == th.failed_indices[th.j]
           next == [th EXCEPT !.j = @ + 1,
                              !.pc = IF th.j < Len(th.failed_indices) THEN "loop" ELSE "finish"]
       IN IF idx < Len(files[f].entries)
          THEN LET entry == files[f].entries[idx + 1]
                   r == retry_result(outcome, entry)
               IN /\ files' = [files EXCEPT ![f].entries[idx + 1].translated_text = r.text]
                  /\ threads' = [threads EXCEPT ![t] =
                       [next EXCEPT
                          !.calls = Append(@, RetryCallOf(idx, entry.text, outcome)),
                          !.retry_success = IF r.success THEN @ + 1 ELSE @,
                          !.retry_failed = IF r.success THEN @ ELSE @ + 1,
                          !.new_failed_indices = IF r.success THEN @ ELSE Append(@, idx)]]
          ELSE /\ threads' = [threads EXCEPT ![t] = next]
               /\ UNCHANGED files
    /\ UNCHANGED <<batch_files, batch_words_var>>
    /\ UnchangedPure

\* lines 689-715: the statistics and the status after the loop
RetryFinish(t, ok) ==
    /\ IsRetry(t) /\ threads[t].pc = "finish"
    /\ LET th == threads[t]
           f == th.file
       IN files' = [files EXCEPT
               ![f].output = write_output(@, files[f].entries, ok),
               ![f].success = @ + th.retry_success,
               ![f].failed = @ - th.retry_success,
               ![f].failed_indices = th.new_failed_indices,
               ![f].status = IF th.new_failed_indices = <<>> THEN Done ELSE @]
    /\ threads' = [threads EXCEPT ![t] = Idle]
    /\ UNCHANGED <<batch_files, batch_words_var>>
    /\ UnchangedPure

\* a variant that leaves failed_indices as it was
RetranslateFile_keeps_failed(i) ==
    /\ i \in 1..Len(batch_files)
    /\ LET f == batch_files[i] IN
       /\ files[f].status \in Terminal
       /\ files' = [files EXCEPT ![f] =
               [status |-> Pending, success |-> 0, failed |-> 0,
                entries |-> [p \in 1..Len(@.entries) |->
                                [@.entries[p] EXCEPT !.translated_text = <<>>]],
                failed_indices |-> @.failed_indices, output |-> @.output]]
    /\ UNCHANGED <<batch_files, threads, batch_words_var>>
    /\ UnchangedPure

\* lines 570-571 (the menu offers it) and 717-739
RetranslateFile(i) ==
    /\ i \in 1..Len(batch_files)
    /\ LET f == batch_files[i] IN
       /\ files[f].status \in Terminal
       /\ files' = [files EXCEPT ![f] =
               [status |-> Pending, success |-> 0, failed |-> 0,
                entries |-> [p \in 1..Len(@.entries) |->
                                [@.entries[p] EXCEPT !.translated_text = <<>>]],
                failed_indices |-> <<>>, output |-> @.output]]
    /\ UNCHANGED <<batch_files, threads, batch_words_var>>
    /\ UnchangedPure

\* the list without its element at position i
remove_at(list, i) == SubSeq(list, 1, i - 1) \o SubSeq(list, i + 1, Len(list))

\* lines 525-545 and 773-790: batch_files.pop(index); the file object stays
\* with the threads that hold it
RemoveFile(i) ==
    /\ i \in 1..Len(batch_files)
    /\ Len(files) - Len(batch_files) < MaxRemoved
    /\ batch_files' = remove_at(batch_files, i)
    /\ UNCHANGED <<files, threads, batch_words_var>>
    /\ UnchangedPure

-----------------------------------------------------------------------------
(* The program *)

Next ==
    \/ \E n \in 0..MaxEntries : \E scheme \in IndexSchemes : AddFile(n, scheme)
    \/ StartTranslation
    \/ \E t \in Threads : RunNextFile(t)
    \/ \E t \in Threads : RunCheckEntries(t)
    \/ \E t \in Threads : \E outcome \in BatchOutcomes : RunBatchCall(t, outcome)
    \/ \E t \in Threads : \E outcome \in IndivOutcomes : RunIndivCall(t, outcome)
    \/ \E t \in Threads : RunSleep(t)
    \/ \E t \in Threads : \E ok \in BOOLEAN : RunSave(t, ok)
    \/ \E t \in Threads : RunReport(t)
    \/ \E i \in 1..MaxFiles : RetryFailedEntries(i)
    \/ \E t \in Threads : RetryStart(t)
    \/ \E t \in Threads : \E outcome \in IndivOutcomes : RetryCall(t, outcome)
    \/ \E t \in Threads : \E ok \in BOOLEAN : RetryFinish(t, ok)
    \/ \E i \in 1..MaxFiles : RetranslateFile(i)

\* the program while the list only grows
Spec == Init /\ [][Next]_vars

\* a step of the worker thread t
WorkerStep(t) ==
    \/ RunNextFile(t)
    \/ RunCheckEntries(t)
    \/ \E outcome \in BatchOutcomes : RunBatchCall(t, outcome)
    \/ \E outcome \in IndivOutcomes : RunIndivCall(t, outcome)
    \/ RunSleep(t)
    \/ \E ok \in BOOLEAN : RunSave(t, ok)
    \/ RunReport(t)

\* the runs of the program: files are added and runs are started at any time
NextRun ==
    \/ \E n \in 0..MaxEntries : \E scheme \in IndexSchemes : AddFile(n, scheme)
    \/ StartTranslation
    \/ \E t \in Threads : WorkerStep(t)

\* a step of the retry thread t
RetryStep(t) ==
    \/ RetryStart(t)
    \/ \E outcome \in IndivOutcomes : RetryCall(t, outcome)
    \/ \E ok \in BOOLEAN : RetryFinish(t, ok)

\* the program with files removed from the list while threads run
NextList ==
    \/ \E n \in 0..MaxEntries : \E scheme \in IndexSchemes : AddFile(n, scheme)
    \/ \E i \in 1..MaxFiles : RemoveFile(i)
    \/ StartTranslation
    \/ \E t \in Threads : WorkerStep(t)
    \/ \E i \in 1..MaxFiles : RetryFailedEntries(i)
    \/ \E t \in Threads : RetryStep(t)

SpecList == Init /\ [][NextList]_vars

\* one file of up to MaxPassEntries entries and its passes
AddPassFile(n) ==
    /\ files = <<>>
    /\ files' = <<file_info(FileEntries(n, file_scheme(n)))>>
    /\ batch_files' = <<1>>
    /\ UNCHANGED <<threads, batch_words_var>>
    /\ UnchangedPure

PassConfigValues == ConfigValues \cup {[valid |-> TRUE, n |-> 2 * EntryWords + 1]}

InitPass ==
    /\ batch_files = <<>>
    /\ files = <<>>
    /\ threads = [t \in Threads |-> Idle]
    /\ batch_words_var \in PassConfigValues
    /\ PureIdle

NextPass ==
    \/ \E n \in 0..MaxPassEntries : AddPassFile(n)
    \/ StartTranslation
    \/ \E t \in Threads : WorkerStep(t)

SpecPass == InitPass /\ [][NextPass]_vars

\* every call of the client returns or raises, and a thread that can take
\* its next step is scheduled
Fairness == \A t \in Threads : WF_vars(WorkerStep(t))

SpecLive == Init /\ [][NextRun]_vars /\ Fairness

-----------------------------------------------------------------------------
(* create_batches as a pure function of its input *)

PipelineIdle ==
    /\ batch_files = <<>>
    /\ files = <<>>
    /\ threads = [t \in Threads |-> Idle]
    /\ batch_words_var = [valid |-> FALSE, n |-> 0]

UnchangedPipeline == UNCHANGED <<batch_files, files, threads, batch_words_var>>

\* entries whose texts have the given word counts
EntriesOfWords(ws) ==
    [p \in 1..Len(ws) |-> SRTEntry(p, TimeTags[p], TimeTags[p + 1], Words(ws[p]))]

BatchInputs ==
    {[entries |-> EntriesOfWords(ws), max_words |-> m] :
        ws \in UNION {[1..n -> 1..MaxW] : n \in 0..MaxLen}, m \in 1..MaxW}

InitBatches ==
    /\ PipelineIdle
    /\ arg \in BatchInputs
    /\ res = [done |-> FALSE, batches |-> <<>>]

ApplyCreateBatches ==
    /\ ~res.done
    /\ res' = [done |-> TRUE, batches |-> create_batches(arg.entries, arg.max_words)]
    /\ UNCHANGED arg
    /\ UnchangedPipeline

NextBatches == ApplyCreateBatches

SpecBatches == InitBatches /\ [][NextBatches]_vars

-----------------------------------------------------------------------------
(* Properties of create_batches (SpecBatches) *)

RECURSIVE concat(_)
concat(seqs) == IF seqs = <<>> THEN <<>> ELSE Head(seqs) \o concat(Tail(seqs))

RECURSIVE total_words(_)
total_words(batch) ==
    IF batch = <<>> THEN 0 ELSE count_words(Head(batch).text) + total_words(Tail(batch))

\* C2: the batches of create_batches concatenate to the input in order, none
\* is empty, and an entry over the budget is the first entry of its batch
C2_BatchesPartition ==
    res.done =>
        /\ concat(res.batches) = arg.entries
        /\ \A b \in 1..Len(res.batches) :
              /\ res.batches[b] # <<>>
              /\ \A k \in 2..Len(res.batches[b]) :
                    count_words(res.batches[b][k].text) <= arg.max_words

C2_Witness ==
    /\ res.done
    /\ \E b \in 1..Len(res.batches) :
          /\ b > 1
          /\ count_words(res.batches[b][1].text) > arg.max_words
    /\ \E b \in 1..Len(res.batches) : Len(res.batches[b]) >= 2

\* C3: a batch of two or more entries is within the budget; a batch over the
\* budget has exactly one entry
C3_BudgetRespected ==
    res.done =>
        \A b \in 1..Len(res.batches) :
            /\ Len(res.batches[b]) >= 2 => total_words(res.batches[b]) <= arg.max_words
            /\ total_words(res.batches[b]) > arg.max_words => Len(res.batches[b]) = 1

C3_Witness ==
    /\ res.done
    /\ \E b \in 1..Len(res.batches) :
          Len(res.batches[b]) >= 2 /\ total_words(res.batches[b]) = arg.max_words
    /\ \E b \in 1..Len(res.batches) :
          Len(res.batches[b]) = 1 /\ total_words(res.batches[b]) > arg.max_words

-----------------------------------------------------------------------------
(* Properties of the pipeline (Spec) *)

RunThreads == {t \in Threads : IsRun(t)}

RetryThreads == {t \in Threads : IsRetry(t)}

\* the batch a worker is translating
CurrentBatch(t) == threads[t].batches[threads[t].b]

\* translate_batch has returned (or raised) for the current batch
BatchReturned(t) == IsRun(t) /\ threads[t].pc \in {"sleep", "save"}

\* a string a client can have returned for an accepted parse or a single entry
ClientText(s) == s # <<>> /\ ~starts_with_fail(s)

\* C1 (as claimed): every entry of a file whose pass has ended is left with a
\* non-empty translated_text, a translation or the sentinel and its source text
C1_NonEmptyAfterRun ==
    \A f \in 1..Len(files) :
        files[f].status \in {Done, PartiallyFailed} /\ Live = 0 =>
            \A p \in 1..Len(files[f].entries) :
                LET e == files[f].entries[p] IN
                /\ e.translated_text # <<>>
                /\ ClientText(e.translated_text) \/ e.translated_text = sentinel(e.text)

\* C4: translate_batch returns exactly len(batch) strings and never raises,
\* whatever the client does
C4_BatchResultLength ==
    \A t \in Threads :
        BatchReturned(t) =>
            /\ ~threads[t].raised
            /\ Len(threads[t].results) = Len(CurrentBatch(t))

C4_Witness ==
    \E t \in Threads :
        /\ BatchReturned(t)
        /\ Len(CurrentBatch(t)) = 2
        /\ Len(threads[t].calls) = 3
        /\ threads[t].calls[1].raised
        /\ threads[t].calls[2].raised
        /\ ~threads[t].calls[3].raised

\* the reply is accepted by the primary or by the fallback parse
ParseAccepted(reply, n) ==
    /\ ~reply.raised
    /\ Len(primary_parse(reply.lines)) = n \/ Len(alt_parse(reply.lines)) = n

\* C5: one batch call per batch; N individual calls, one per entry in order
\* and with that entry's text, exactly when the batch call raised or no parse
\* gave N units; no individual call after an accepted parse
C5_CallCascade ==
    \A t \in RunThreads :
        LET th == threads[t] IN
        th.pc \in {"indiv", "sleep", "save"} =>
            LET batch == CurrentBatch(t)
                n == Len(batch)
            IN /\ Len(th.calls) >= 1 /\ Len(th.calls) <= 1 + n
               /\ th.calls[1] = [kind |-> "batch", text |-> batch_text(batch),
                                 raised |-> th.calls[1].raised]
               /\ \A k \in 2..Len(th.calls) :
                     /\ th.calls[k].kind = "indiv"
                     /\ th.calls[k].text = batch[k - 1].text
               /\ th.pc = "indiv" => Len(th.calls) = 1 + Len(th.results) /\ Len(th.calls) <= n
               /\ th.pc # "indiv" => Len(th.calls) \in {1, 1 + n}
               /\ th.reply.fresh =>
                     /\ Len(th.calls) = 1
                     /\ th.reply.raised = th.calls[1].raised
                     /\ ParseAccepted(th.reply, n) <=> th.pc # "indiv"

C5_Witness ==
    \E t \in RunThreads :
        /\ threads[t].pc = "sleep"
        /\ Len(CurrentBatch(t)) = 2
        /\ Len(threads[t].calls) = 3
        /\ ~threads[t].calls[1].raised

\* C6: an individual call that fails gives the sentinel and the source text,
\* counts as one failure, and the entries and batches after it are attempted
C6_IndividualFailure ==
    \A t \in RunThreads :
        LET th == threads[t] IN
        /\ th.pc \in {"sleep", "save"} =>
              LET batch == CurrentBatch(t) IN
              /\ \A k \in 2..Len(th.calls) :
                    th.calls[k].raised =>
                        /\ Len(th.calls) = 1 + Len(batch)
                        /\ th.results[k - 1] = sentinel(batch[k - 1].text)
              /\ th.failed = count_failed(th.pass_results, Len(th.pass_results))
              /\ th.success + th.failed = th.entry_idx
              /\ Len(th.pass_results) = th.entry_idx
        /\ th.pc = "save" => th.entry_idx = Len(files[th.file].entries)

C6_Witness ==
    \E t \in RunThreads :
        LET th == threads[t] IN
        /\ th.pc = "save"
        /\ th.b = 2
        /\ th.pass_results[1] = sentinel(files[th.file].entries[1].text)
        /\ is_success(th.pass_results[2])
        /\ th.failed = 1

\* a worker ends the pass over its file in this step
EndsPass(t) ==
    /\ IsRun(t)
    /\ threads[t].pc \in {"entries", "save"}
    /\ threads'[t].pc = "next"

\* C7: at the end of a pass the status is Failed for a file without entries,
\* else Done when no entry failed and PartiallyFailed when one or more failed
C7_StatusAtPassEnd ==
    [][\A t \in Threads :
          EndsPass(t) =>
              LET th == threads[t]
                  entries == files[th.file].entries
                  nfailed == count_failed(th.pass_results, Len(th.pass_results))
              IN files'[th.file].status =
                     IF entries = <<>> THEN Failed
                     ELSE IF nfailed = 0 THEN Done
                     ELSE PartiallyFailed]_vars

C7_Witness ==
    /\ Live = 0
    /\ \E f \in 1..Len(files) :
          /\ files[f].status = PartiallyFailed
          /\ files[f].success = 0
          /\ Len(files[f].entries) = 2
    /\ \E f \in 1..Len(files) : files[f].status = Failed

\* C8 (as claimed): a step of a run changes the status of a file only from
\* Pending to InProgress or from InProgress to a terminal status
C8_RunMonotonic ==
    [][\A t \in Threads :
          IsRun(t) /\ threads'[t] # threads[t] =>
              \A f \in 1..Len(files) :
                  files'[f].status # files[f].status =>
                      \/ files[f].status = Pending /\ files'[f].status = InProgress
                      \/ files[f].status = InProgress /\ files'[f].status \in Terminal]_vars

\* C9 (as claimed): while the failed entries of a file are retried the file
\* is InProgress
C9_RetryInProgress ==
    \A t \in RetryThreads : files[threads[t].file].status = InProgress

\* a retry ends in this step
EndsRetry(t) == IsRetry(t) /\ threads[t].pc = "finish" /\ threads'[t] = Idle

\* the call of a retry gave no translation
FailedAgain(c) ==
    \/ c.outcome.raised
    \/ flatten(c.outcome.lines) = <<>>
    \/ starts_with_fail(flatten(c.outcome.lines))

\* the positions whose call of the retry failed again, in order
RECURSIVE failed_again(_)
failed_again(calls) ==
    IF calls = <<>> THEN <<>>
    ELSE (IF FailedAgain(Head(calls)) THEN <<Head(calls).idx>> ELSE <<>>)
         \o failed_again(Tail(calls))

\* C10 (as claimed): after a retry failed_indices holds the entries that
\* failed again, the counts moved by the number of new successes, and the
\* status is Done when none is left and PartiallyFailed otherwise
C10_RetryOutcome ==
    [][\A t \in Threads :
          EndsRetry(t) =>
              LET th == threads[t]
                  f == th.file
                  again == failed_again(th.calls)
                  n == Len(th.failed_indices) - Len(again)
              IN /\ [k \in 1..Len(th.calls) |-> th.calls[k].idx] = th.failed_indices
                 /\ files'[f].failed_indices = again
                 /\ files'[f].success = files[f].success + n
                 /\ files'[f].failed = files[f].failed - n
                 /\ files'[f].status = IF again = <<>> THEN Done ELSE PartiallyFailed]_vars

-----------------------------------------------------------------------------
(* failed_indices and Entry.index *)

\* the 0-based positions of the failed translations of a pass, in order
failed_of_pass(results) ==
    LET from[k \in 1..(Len(results) + 1)] ==
            IF k > Len(results) THEN <<>>
            ELSE (IF is_failure(results[k]) THEN <<k - 1>> ELSE <<>>) \o from[k + 1]
    IN from[1]

\* a worker ends the pass over a file that has entries
SavesPass(t) == IsRun(t) /\ threads[t].pc = "save" /\ threads'[t].pc = "next"

\* a retry makes the call of one of its failed_indices in this step
RetryCalls(t) ==
    /\ IsRetry(t) /\ threads[t].pc = "loop"
    /\ threads'[t] # threads[t]
    /\ threads[t].failed_indices[threads[t].j] < Len(files[threads[t].file].entries)

\* C11 (as claimed): after a pass failed_indices is the set of the Entry.index
\* values of the entries that failed
C11_FailedIndexValues ==
    [][\A t \in Threads :
          SavesPass(t) =>
              LET th == threads[t]
                  f == th.file
                  stored == files'[f].failed_indices
              IN {stored[k] : k \in 1..Len(stored)} =
                     {files[f].entries[p].index :
                        p \in {q \in 1..Len(th.pass_results) :
                                  is_failure(th.pass_results[q])}}]_vars

\* C11: after a pass failed_indices lists the 0-based positions of the
\* entries that failed, in document order, and the retry of a member i sends
\* the text of the entry at position i and writes that entry only, whatever
\* the Entry.index values of the file are
C11_FailedPositions ==
    [][\A t \in Threads :
          /\ SavesPass(t) =>
                files'[threads[t].file].failed_indices = failed_of_pass(threads[t].pass_results)
          /\ RetryCalls(t) =>
                LET th == threads[t]
                    f == th.file
                    idx == th.failed_indices[th.j]
                    made == threads'[t].calls[Len(threads'[t].calls)]
                IN /\ Len(threads'[t].calls) = Len(th.calls) + 1
                   /\ made.idx = idx
                   /\ made.text = files[f].entries[idx + 1].text
                   /\ \A p \in 1..Len(files[f].entries) :
                         p # idx + 1 => files'[f].entries[p] = files[f].entries[p]]_vars

C11_Witness ==
    \E t \in RetryThreads :
        LET th == threads[t]
            f == th.file
        IN /\ th.failed_indices = <<1>>
           /\ Len(th.calls) = 1
           /\ files[f].entries[2].index = 5
           /\ files[f].entries[1].index = 3
           /\ th.calls[1].text = files[f].entries[2].text

-----------------------------------------------------------------------------
(* Workers at the same time *)

\* the thread is at a call of translate_text
AtCall(t) ==
    \/ IsRun(t) /\ threads[t].pc \in {"batch", "indiv"}
    \/ IsRetry(t) /\ threads[t].pc = "loop"

\* the worker is in its pass over file f
InPass(t, f) ==
    /\ IsRun(t)
    /\ threads[t].pc \in {"entries", "batch", "indiv", "sleep", "save"}
    /\ threads[t].file = f

\* C12 (as claimed): at most one background thread is alive, at most one
\* file is InProgress and at most one thread is at a call of the client
C12_SingleWorker ==
    /\ Live <= 1
    /\ Cardinality({f \in 1..Len(files) : files[f].status = InProgress}) <= 1
    /\ Cardinality({t \in Threads : AtCall(t)}) <= 1

\* C13 (as claimed): no retry of a file is started while the file is
\* InProgress, and no worker is in its pass over a file while a retry of that
\* file is running
C13_NoOverlap ==
    /\ [][\A t \in Threads :
            ~IsRetry(t) /\ IsRetry(t)' => files[threads'[t].file].status # InProgress]_vars
    /\ [](\A t \in RetryThreads : \A u \in Threads : ~InPass(u, threads[t].file))

-----------------------------------------------------------------------------
(* Order of the batches of a pass *)

\* the worker takes a step inside translate_batch for its current batch
InBatchStep(t) ==
    /\ IsRun(t) /\ threads[t].pc \in {"batch", "indiv"}
    /\ threads'[t] # threads[t]

\* the worker goes on to another batch of the same pass, or leaves the loop
LeavesBatch(t) ==
    /\ IsRun(t) /\ IsRun(t)'
    /\ threads[t].pc \in {"batch", "indiv", "sleep"}
    /\ \/ threads'[t].b # threads[t].b
       \/ threads'[t].pc \in {"save", "next", "report"}

\* C14: the calls of a batch are followed by the write of its results and by
\* the pacing delay, after every batch and whatever its outcome; only the
\* delay leads to the next batch (or out of the loop), and the first call of
\* the next batch is made after the calls of the batch before it are complete
C14_BatchesInSequence ==
    /\ [][\A t \in Threads :
            /\ InBatchStep(t) =>
                  /\ threads'[t].pc \in {"indiv", "sleep"}
                  /\ threads'[t].b = threads[t].b
                  /\ threads'[t].pc = "sleep" =>
                        LET batch == CurrentBatch(t)
                            f == threads[t].file
                        IN /\ Len(threads'[t].results) = Len(batch)
                           /\ \A k \in 1..Len(batch) :
                                 files'[f].entries[batch[k].ref].translated_text =
                                     threads'[t].results[k]
            /\ LeavesBatch(t) =>
                  /\ threads[t].pc = "sleep"
                  /\ threads'[t].pc = "batch" => threads'[t].b = threads[t].b + 1
                  /\ threads'[t].pc # "batch" =>
                        threads'[t].pc = "save" /\ threads[t].b = Len(threads[t].batches)]_vars
    /\ [](\A t \in RunThreads :
            threads[t].pc = "batch" /\ threads[t].b > 1 =>
                Len(threads[t].calls) \in
                    {1, 1 + Len(threads[t].batches[threads[t].b - 1])})

C14_Witness ==
    \E t \in RunThreads :
        /\ threads[t].pc = "batch"
        /\ threads[t].b = 2
        /\ Len(threads[t].calls) = 2
        /\ threads[t].calls[2].raised

-----------------------------------------------------------------------------
(* The output of a pass *)

\* C15 (as claimed): the step that ends a pass Done or PartiallyFailed has
\* written the output: one block per entry, in order, with the index and the
\* timecodes of the entry, the blocks of the failed entries carrying the
\* sentinel text
C15_OutputAfterPass ==
    [][\A t \in Threads :
          SavesPass(t) =>
              LET th == threads[t]
                  f == th.file
                  entries == files[f].entries
                  out == files'[f].output
              IN /\ files'[f].status \in {Done, PartiallyFailed}
                 /\ out.written
                 /\ Len(out.blocks) = Len(entries)
                 /\ \A p \in 1..Len(entries) :
                       /\ out.blocks[p].index = entries[p].index
                       /\ out.blocks[p].start_time = entries[p].start_time
                       /\ out.blocks[p].end_time = entries[p].end_time
                       /\ is_failure(th.pass_results[p]) =>
                             out.blocks[p].text = sentinel(entries[p].text)]_vars

-----------------------------------------------------------------------------
(* Termination of a run (SpecLive) *)

\* the worker has left the loop over the files and reports the result
Reports(t) == IsRun(t) /\ threads[t].pc = "report"

\* file f of the list is still to be processed by worker t
Ahead(t, f) ==
    /\ IsRun(t) /\ threads[t].pc = "next"
    /\ f \in 1..Len(batch_files)
    /\ threads[t].i <= f

\* the pass over file f has ended
Processed(f) == f \in 1..Len(files) /\ files[f].status \in Terminal

-----------------------------------------------------------------------------
(* get_context as a pure function of its input *)

CtxTags == <<"c1", "c2", "c3", "c4", "c5", "c6", "c7", "c8", "c9", "c10", "c11", "c12">>

\* entries of which those marked are translated, each to its own word
EntriesTranslated(marks) ==
    [p \in 1..Len(marks) |->
        [SRTEntry(p, "00:01", "00:02", <<"s">>) EXCEPT
            !.translated_text = IF marks[p] THEN <<CtxTags[p]>> ELSE <<>>]]

ContextInputs ==
    {[all_entries |-> EntriesTranslated(marks), current_start_idx |-> start] :
        marks \in UNION {[1..n -> BOOLEAN] : n \in 0..MaxCtx}, start \in 0..MaxCtx}

InitContext ==
    /\ PipelineIdle
    /\ arg \in {a \in ContextInputs : a.current_start_idx <= Len(a.all_entries)}
    /\ res = [done |-> FALSE, context |-> <<>>]

ApplyGetContext ==
    /\ ~res.done
    /\ res' = [done |-> TRUE,
               context |-> get_context(arg.all_entries, arg.current_start_idx)]
    /\ UNCHANGED arg
    /\ UnchangedPipeline

NextContext == ApplyGetContext

SpecContext == InitContext /\ [][NextContext]_vars

\* the translations of the translated entries before the start, in order
translated_before(all_entries, current_start_idx) ==
    LET from[p \in 1..(current_start_idx + 1)] ==
            IF p > current_start_idx THEN <<>>
            ELSE (IF all_entries[p].translated_text # <<>>
                  THEN <<all_entries[p].translated_text>> ELSE <<>>) \o from[p + 1]
    IN from[1]

\* C17 (as claimed): the context is the space-joined translated_text of the
\* (up to) 5 translated entries nearest before the start, in document order
C17_NearestContext ==
    res.done =>
        res.context =
            join_texts(last_entries(translated_before(arg.all_entries,
                                                      arg.current_start_idx)))

-----------------------------------------------------------------------------
(* The parser of translate_batch as a pure function of the reply *)

ReplyTags == <<"a1", "a2", "a3", "a4", "a5">>

\* the kinds of a line: a marker with text, a marker alone, a plain line, an
\* empty line; the text of a line names its position in the reply
ReplyKinds == {"marked", "bare", "plain", "blank"}

reply_line(kind, i) ==
    CASE kind = "marked" -> Line(TRUE, <<ReplyTags[i]>>)
      [] kind = "bare" -> Line(TRUE, <<>>)
      [] kind = "plain" -> Line(FALSE, <<ReplyTags[i]>>)
      [] OTHER -> Line(FALSE, <<>>)

AlignInputs ==
    {[lines |-> [i \in 1..Len(kinds) |-> reply_line(kinds[i], i)],
      batch |-> entry_refs(FileEntries(k, "from1"))] :
        kinds \in UNION {[1..n -> ReplyKinds] : n \in 0..MaxReply}, k \in 1..MaxK}

InitAlign ==
    /\ PipelineIdle
    /\ arg \in AlignInputs
    /\ res = [done |-> FALSE, ok |-> FALSE, lines |-> <<>>]

\* lines 278-325 for a reply the client returned
ApplyAlign ==
    /\ ~res.done
    /\ LET r == batch_call_result(Reply(arg.lines), arg.batch)
       IN res' = [done |-> TRUE, ok |-> r.ok, lines |-> r.lines]
    /\ UNCHANGED arg
    /\ UnchangedPipeline

NextAlign == ApplyAlign

SpecAlign == InitAlign /\ [][NextAlign]_vars

\* the lines of the reply that start with a bracketed marker
Marked(lines) == {i \in 1..Len(lines) : lines[i].mark}

\* the non-empty lines of the reply
NonBlank(lines) == {i \in 1..Len(lines) : ~is_blank(lines[i])}

\* the text of the unit that the marked line i opens: the text after the
\* bracket and the non-empty lines up to the next marked line
unit_text(lines, i) ==
    LET rest[j \in (i + 1)..(Len(lines) + 1)] ==
            IF j > Len(lines) \/ lines[j].mark THEN <<>>
            ELSE line_text(lines[j]) \o rest[j + 1]
    IN lines[i].body \o rest[i + 1]

\* the elements of a set of positions, in increasing order
RECURSIVE in_order(_)
in_order(S) ==
    IF S = {} THEN <<>>
    ELSE LET m == CHOOSE x \in S : \A y \in S : x <= y
         IN <<m>> \o in_order(S \ {m})

\* C18 (as claimed): a reply with exactly K marked lines for a batch of K
\* entries is accepted and gives K strings, the k-th being the text of the
\* k-th marked unit with its continuation lines
C18_MarkedUnits ==
    res.done /\ Cardinality(Marked(arg.lines)) = Len(arg.batch) =>
        /\ res.ok
        /\ Len(res.lines) = Len(arg.batch)
        /\ \A k \in 1..Len(arg.batch) :
              res.lines[k] = unit_text(arg.lines, in_order(Marked(arg.lines))[k])

\* C19: a reply without a marked line and with exactly K non-empty lines for
\* a batch of K >= 1 entries is accepted (no individual call), and gives
\* those K lines in order
C19_PlainLines ==
    res.done /\ Marked(arg.lines) = {} /\ Cardinality(NonBlank(arg.lines)) = Len(arg.batch) =>
        /\ res.ok
        /\ Len(res.lines) = Len(arg.batch)
        /\ \A k \in 1..Len(arg.batch) :
              res.lines[k] = line_text(arg.lines[in_order(NonBlank(arg.lines))[k]])

C19_Witness ==
    /\ res.done
    /\ Len(arg.batch) = 3
    /\ Len(arg.lines) = 4
    /\ Marked(arg.lines) = {}
    /\ NonBlank(arg.lines) = {1, 3, 4}
    /\ res.ok
    /\ res.lines = <<<<"a1">>, <<"a3">>, <<"a4">>>>

-----------------------------------------------------------------------------
(* SRTParser: documents as text                                            *)
(*                                                                         *)
(* Here a string is the sequence of its lines (the empty string has no     *)
(* line), and a line is the sequence of its parts between the occurrences  *)
(* of " --> ": <<"">> is an empty line, <<"x">> a line without separator,  *)
(* <<"t", "u">> the line "t --> u".                                        *)

BlankLine == <<"">>

Digits == <<"1", "2", "3">>

\* str(index)
num_line(index) == <<Digits[index]>>

\* int(lines[0]) succeeds
is_int(line) == Len(line) = 1 /\ \E i \in 1..Len(Digits) : Digits[i] = line[1]

int_of(line) == CHOOSE i \in 1..Len(Digits) : Digits[i] = line[1]

\* str.split('\n'): the lines of a string
lines_of(str) == IF str = <<>> THEN <<BlankLine>> ELSE str

\* str.strip() on the lines of a string
RECURSIVE strip_lines(_)
strip_lines(str) ==
    IF str = <<>> THEN <<>>
    ELSE IF Head(str) = BlankLine THEN strip_lines(Tail(str))
    ELSE IF str[Len(str)] = BlankLine THEN strip_lines(SubSeq(str, 1, Len(str) - 1))
    ELSE str

\* f"{start_time} --> {end_time}" for one-line strings
time_line(start_time, end_time) ==
    (IF start_time = <<>> THEN BlankLine ELSE start_time[1])
    \o (IF end_time = <<>> THEN BlankLine ELSE end_time[1])

\* a one-line string from a part of a line ("" has no line)
part_string(part) == IF part = "" THEN <<>> ELSE <<<<part>>>>

\* line 60: the lines of f"{index}\n{start} --> {end}\n{text}\n"; the last
\* one is the empty line that the final line break leaves
block_lines(block) ==
    <<num_line(block.index), time_line(block.start_time, block.end_time)>>
    \o lines_of(block.text) \o <<BlankLine>>

\* line 61: '\n'.join(result), as lines
RECURSIVE join_blocks(_)
join_blocks(blocks) ==
    IF blocks = <<>> THEN <<>>
    ELSE block_lines(Head(blocks)) \o join_blocks(Tail(blocks))

\* lines 56-61 as text
serialize(entries) ==
    IF entries = <<>> THEN <<BlankLine>> ELSE join_blocks(entries_to_srt(entries))

\* line 32: re.split(r'\n\s*\n', ...): the runs of non-empty lines
RECURSIVE split_blocks(_, _)
split_blocks(lines, current) ==
    IF lines = <<>> THEN (IF current = <<>> THEN <<>> ELSE <<current>>)
    ELSE IF Head(lines) = BlankLine
         THEN (IF current = <<>> THEN <<>> ELSE <<current>>)
              \o split_blocks(Tail(lines), <<>>)
         ELSE split_blocks(Tail(lines), Append(current, Head(lines)))

\* a variant that keeps only the first line of the text of a block
block_entries_first_line(lines) ==
    IF Len(lines) < 3 \/ ~is_int(lines[1]) \/ Len(lines[2]) # 2 THEN <<>>
    ELSE <<SRTEntry(int_of(lines[1]), part_string(lines[2][1]), part_string(lines[2][2]),
                    <<lines[3]>>)>>

\* lines 38-51: the entry of a block, or nothing when the block is skipped
block_entries(lines) ==
    IF Len(lines) < 3 THEN <<>>
    ELSE IF ~is_int(lines[1]) THEN <<>>
    ELSE IF Len(lines[2]) < 2 THEN <<>>
    ELSE IF Len(lines[2]) # 2 THEN <<>>
    ELSE <<SRTEntry(int_of(lines[1]), part_string(lines[2][1]), part_string(lines[2][2]),
                    strip_lines(SubSeq(lines, 3, Len(lines))))>>

RECURSIVE parse_blocks(_)
parse_blocks(blocks) ==
    IF blocks = <<>> THEN <<>>
    ELSE block_entries(Head(blocks)) \o parse_blocks(Tail(blocks))

\* lines 30-53
parse_srt(content) == parse_blocks(split_blocks(strip_lines(content), <<>>))

-----------------------------------------------------------------------------
(* The round trip of entries_to_srt and parse_srt *)

TextLineKinds == {<<"x">>, <<"y">>, BlankLine}

\* the texts SRTEntry keeps: text.strip() of any text of up to MaxTextLines lines
EntryTexts ==
    {strip_lines(raw) : raw \in UNION {[1..n -> TextLineKinds] : n \in 0..MaxTextLines}}

\* a timecode, the empty string, a string that holds the separator
TimeStrings == {<<<<"t">>>>, <<>>, <<<<"t", "u">>>>}

EntryChoices == {[start_time |-> st, text |-> tx] : st \in TimeStrings, tx \in EntryTexts}

\* untranslated entries, numbered from 1
DocEntries(choices) ==
    [p \in 1..Len(choices) |->
        SRTEntry(p, choices[p].start_time, <<<<"u">>>>, choices[p].text)]

RoundTripInputs ==
    {[entries |-> DocEntries(choices)] :
        choices \in UNION {[1..n -> EntryChoices] : n \in 0..MaxDocEntries}}

InitRoundTrip ==
    /\ PipelineIdle
    /\ arg \in RoundTripInputs
    /\ res = [done |-> FALSE, once |-> <<>>, parsed |-> <<>>, twice |-> <<>>]

ApplyRoundTrip ==
    /\ ~res.done
    /\ LET once == serialize(arg.entries)
           parsed == parse_srt(once)
       IN res' = [done |-> TRUE, once |-> once, parsed |-> parsed,
                  twice |-> serialize(parsed)]
    /\ UNCHANGED arg
    /\ UnchangedPipeline

NextRoundTrip == ApplyRoundTrip

SpecRoundTrip == InitRoundTrip /\ [][NextRoundTrip]_vars

\* a string without separator
NoSeparator(str) == \A k \in 1..Len(str) : Len(str[k]) = 1

\* an entry as parse_srt returns them: a text of one or more lines, none of
\* them empty, and timecodes without the separator
AsParsed(entry) ==
    /\ entry.text # <<>>
    /\ \A k \in 1..Len(entry.text) : entry.text[k] # BlankLine
    /\ NoSeparator(entry.start_time) /\ NoSeparator(entry.end_time)
    /\ Len(entry.start_time) <= 1 /\ Len(entry.end_time) <= 1

-----------------------------------------------------------------------------
(* calculate_max_tokens and the budget translate_text sends (SpecTokens) *)

MaxWordCount == 2100
MaxEstimated == 2

MinTokens == 200
MaxTokens == 4000

\* round half up of n / d, for n >= 0
round_div(n, d) == (2 * n + d) \div (2 * d)

\* a variant that rounds to the nearest integer where the code truncates
calculate_max_tokens_rounded(input_word_count) ==
    LET estimated_output == round_div(input_word_count * 3, 2)
        calculated_tokens == round_div(estimated_output * 13, 10)
    IN  Max(MinTokens, Min(calculated_tokens, MaxTokens))

\* int() truncates; for the non-negative counts here the double products
\* n * 1.5 and n * 1.3 truncate to (3 n) \div 2 and (13 n) \div 10
calculate_max_tokens(input_word_count) ==
    LET estimated_output == (input_word_count * 3) \div 2
        calculated_tokens == (estimated_output * 13) \div 10
    IN  Max(MinTokens, Min(calculated_tokens, MaxTokens))

\* the word_count argument of translate_text: None or a number
NoWordCount == [given |-> FALSE, n |-> 0]
WordCount(n) == [given |-> TRUE, n |-> n]

\* the count translate_text computes the budget from: word_count when it is
\* truthy, else the number of words of the text
request_words(estimated_words, word_count) ==
    IF word_count.given /\ word_count.n # 0 THEN word_count.n ELSE estimated_words

current_max_tokens(estimated_words, word_count) ==
    calculate_max_tokens(request_words(estimated_words, word_count))

TokenInputs ==
    {[estimated_words |-> e, word_count |-> WordCount(n)] :
        e \in 0..MaxEstimated, n \in 0..MaxWordCount}
    \cup {[estimated_words |-> e, word_count |-> NoWordCount] : e \in 0..MaxWordCount}

InitTokens ==
    /\ PipelineIdle
    /\ arg \in TokenInputs
    /\ res = [done |-> FALSE, words |-> 0, max_tokens |-> 0]

ApplyTranslateText ==
    /\ ~res.done
    /\ res' = [done |-> TRUE,
               words |-> request_words(arg.estimated_words, arg.word_count),
               max_tokens |-> current_max_tokens(arg.estimated_words, arg.word_count)]
    /\ UNCHANGED arg
    /\ UnchangedPipeline

NextTokens == ApplyTranslateText

SpecTokens == InitTokens /\ [][NextTokens]_vars

clamp(x, lo, hi) == IF x < lo THEN lo ELSE IF x > hi THEN hi ELSE x

\* C21 as stated: the budget is clamp(round(round(w * 1.5) * 1.3), 200, 4000)
C21_RoundedBudget ==
    res.done =>
        res.max_tokens = clamp(round_div(round_div(3 * res.words, 2) * 13, 10), 200, 4000)

\* C21: the budget is clamp(c, 200, 4000) where e is w * 1.5 rounded down and
\* c is e * 1.3 rounded down; it is within [200, 4000] and is not below the
\* budget of any smaller word count
C21_TruncatedBudget ==
    res.done =>
        /\ \E e \in res.words..(2 * res.words) :
              /\ 2 * e <= 3 * res.words /\ 3 * res.words < 2 * e + 2
              /\ \E c \in e..(2 * e) :
                    /\ 10 * c <= 13 * e /\ 13 * e < 10 * c + 10
                    /\ res.max_tokens = clamp(c, 200, 4000)
        /\ res.max_tokens >= 200 /\ res.max_tokens <= 4000
        /\ res.words > 0 => calculate_max_tokens(res.words - 1) <= res.max_tokens

C21_Witness ==
    /\ res.done
    /\ arg.word_count = WordCount(105)
    /\ res.words = 105
    /\ res.max_tokens = 204


-----------------------------------------------------------------------------
(* Properties of the entries and of the foreground actions (Spec) *)

\* the fields of an entry that are set when the file is parsed
fixed_fields(entry) ==
    [index |-> entry.index, start_time |-> entry.start_time,
     end_time |-> entry.end_time, text |-> entry.text]

fixed_entries(entries) == [p \in 1..Len(entries) |-> fixed_fields(entries[p])]

\* C22: no step changes the number or order of a file's entries nor the
\* index, start time, end time or source text of any of them
C22_OnlyTranslatedTextChanges ==
    [][\A f \in 1..Len(files) :
          /\ f \in 1..Len(files')
          /\ fixed_entries(files'[f].entries) = fixed_entries(files[f].entries)]_vars

\* a file whose earlier pass was saved and whose next pass has written the
\* translation of its first entry
C22_Witness ==
    \E f \in 1..Len(files) :
        /\ Len(files[f].entries) = 2
        /\ files[f].status = InProgress
        /\ files[f].output.written
        /\ files[f].entries[1].translated_text = <<"a">>
        /\ files[f].entries[2].translated_text = <<>>
        /\ fixed_entries(files[f].entries) = fixed_entries(FileEntries(2, file_scheme(2)))


\* a pass or a retry of file f is in progress
Busy(f) ==
    \E t \in Threads : InPass(t, f) \/ (IsRetry(t) /\ threads[t].file = f)

translated_texts(entries) == [p \in 1..Len(entries) |-> entries[p].translated_text]

\* the step is one of the foreground: no thread moves
ForegroundStep == UNCHANGED threads

\* C23 (as claimed): while a pass or a retry of a file is in progress no
\* foreground step changes the translations or the statistics of the file
C23_WorkerOnlyMutation ==
    [][\A f \in 1..Len(files) :
          (Busy(f) /\ ForegroundStep) =>
              /\ translated_texts(files'[f].entries) = translated_texts(files[f].entries)
              /\ files'[f].success = files[f].success
              /\ files'[f].failed = files[f].failed]_vars


\* the retry thread t has looked up its file in this step
StartsRetry(t) == IsStarting(t) /\ IsRetry(t)'

\* the positions a sequence of retry calls was made for
called_positions(calls) == [k \in 1..Len(calls) |-> calls[k].idx]

\* C24: a retry works on the failed_indices recorded for its file when it
\* starts; when it ends it has made one call for each of them, in order, and
\* none for another entry; no step of it changes the translated_text of an
\* entry that is not recorded
C24_RetryCallsFailedOnly ==
    [][\A t \in Threads :
          /\ StartsRetry(t) =>
                threads'[t].failed_indices = files[threads'[t].file].failed_indices
          /\ EndsRetry(t) =>
                LET th == threads[t] IN
                /\ called_positions(th.calls) = th.failed_indices
                /\ \A j, k \in 1..Len(th.calls) :
                      th.calls[j].idx = th.calls[k].idx => j = k
          /\ (IsRetry(t) /\ threads'[t] # threads[t]) =>
                LET th == threads[t]
                    f == th.file
                IN \A p \in 1..Len(files[f].entries) :
                      (\A k \in 1..Len(th.failed_indices) : th.failed_indices[k] # p - 1) =>
                          files'[f].entries[p].translated_text
                              = files[f].entries[p].translated_text]_vars

\* the retry of a file whose second entry failed has made its one call
C24_Witness ==
    \E t \in RetryThreads :
        LET th == threads[t]
            f == th.file
        IN /\ th.pc = "finish"
           /\ Len(files[f].entries) = 2
           /\ th.failed_indices = <<1>>
           /\ called_positions(th.calls) = <<1>>
           /\ files[f].entries[1].translated_text = <<"a">>
           /\ files[f].entries[2].translated_text = <<"a">>


-----------------------------------------------------------------------------
(* Greedy batches (SpecBatches) *)

\* C25: of two consecutive batches, the words of the earlier one plus the
\* words of the first entry of the later one exceed the budget
C25_GreedyMaximal ==
    res.done =>
        \A b \in 1..(Len(res.batches) - 1) :
            total_words(res.batches[b]) + count_words(res.batches[b + 1][1].text)
                > arg.max_words

\* three batches; the first has two entries and is one word short of letting
\* the next entry in, the second is further from letting the last one in
C25_Witness ==
    /\ res.done
    /\ Len(res.batches) = 3
    /\ Len(res.batches[1]) = 2
    /\ total_words(res.batches[1]) + count_words(res.batches[2][1].text)
          = arg.max_words + 1
    /\ total_words(res.batches[2]) + count_words(res.batches[3][1].text)
          > arg.max_words + 1


-----------------------------------------------------------------------------
(* Retranslation (Spec) *)

\* file f is reset by a foreground step: the step of retranslate_file
Retranslates(f) ==
    /\ ForegroundStep
    /\ f \in 1..Len(files)
    /\ Len(files') = Len(files)
    /\ files'[f] # files[f]

\* C26: retranslate acts on a file that is Done, PartiallyFailed or Failed; it
\* leaves the file Pending with both counts at 0, no failed_indices and no
\* translation, and it makes no call and leaves the output file as it is
C26_RetranslateResets ==
    [][\A f \in 1..Len(files) :
          Retranslates(f) =>
              /\ files[f].status \in {Done, PartiallyFailed, Failed}
              /\ files'[f].status = Pending
              /\ files'[f].success = 0 /\ files'[f].failed = 0
              /\ files'[f].failed_indices = <<>>
              /\ \A p \in 1..Len(files'[f].entries) :
                    files'[f].entries[p].translated_text = <<>>
              /\ files'[f].output = files[f].output
              /\ threads' = threads
              /\ \A g \in 1..Len(files) : g # f => files'[g] = files[g]]_vars

\* a file whose pass left one entry failed and wrote the output has just been
\* reset
C26_Witness ==
    \E f \in 1..Len(files) :
        /\ files[f].status = Pending
        /\ Len(files[f].entries) = 2
        /\ files[f].output.written
        /\ Len(files[f].output.blocks) = 2
        /\ starts_with_fail(files[f].output.blocks[2].text)
        /\ \A t \in Threads : IsIdle(t)
        /\ \A p \in 1..2 : files[f].entries[p].translated_text = <<>>
        /\ files[f].failed_indices = <<>>


-----------------------------------------------------------------------------
(* Statistics of a file at rest (Spec) *)

\* the status of the file records a completed pass
PassCompleted(f) == files[f].status \in {Done, PartiallyFailed}

\* C27 (as claimed): a file whose pass is completed and that no pass or retry
\* is running on has success + failed = number of entries, failed = number of
\* failed_indices, no negative count and no position recorded twice
C27_CountsConsistent ==
    \A f \in 1..Len(files) :
        (PassCompleted(f) /\ ~Busy(f)) =>
            LET info == files[f] IN
            /\ info.success + info.failed = Len(info.entries)
            /\ info.failed = Len(info.failed_indices)
            /\ info.success >= 0 /\ info.failed >= 0
            /\ \A j, k \in 1..Len(info.failed_indices) :
                  info.failed_indices[j] = info.failed_indices[k] => j = k


-----------------------------------------------------------------------------
(* Positions within a pass (SpecPass) *)

\* the number of entries of the first n batches
RECURSIVE entries_before(_, _)
entries_before(batches, n) ==
    IF n = 0 THEN 0 ELSE Len(batches[n]) + entries_before(batches, n - 1)

\* the worker makes the batch call of its current batch in this step
MakesBatchCall(t) ==
    /\ IsRun(t) /\ threads[t].pc = "batch"
    /\ threads'[t] # threads[t]

\* the worker writes the results of its current batch in this step
WritesBatch(t) == InBatchStep(t) /\ threads'[t].pc = "sleep"

\* C28: at the start of a batch the position counter is the number of
\* entries of the earlier batches, which is the position of the first entry
\* of the batch, and the context is computed there; the batches hold every
\* entry once, in order; a pass writes the entries of a batch in the step
\* that ends the batch, the k-th result to the k-th entry, and no entry in
\* any other step, and at the end the counter is the number of entries
C28_PositionsInPass ==
    /\ [](\A t \in RunThreads :
            LET th == threads[t]
                entries == files[th.file].entries
            IN /\ th.pc \in {"batch", "indiv", "sleep", "save"} =>
                     [k \in 1..Len(concat(th.batches)) |-> concat(th.batches)[k].ref]
                         = [p \in 1..Len(entries) |-> p]
               /\ th.pc = "batch" =>
                     /\ th.entry_idx = entries_before(th.batches, th.b - 1)
                     /\ th.entry_idx = th.batches[th.b][1].ref - 1
               /\ th.pc = "save" =>
                     /\ th.entry_idx = Len(entries)
                     /\ Len(th.pass_results) = Len(entries))
    /\ [][\A t \in Threads :
            /\ MakesBatchCall(t) =>
                  threads'[t].context =
                      get_context(files[threads[t].file].entries,
                                  CurrentBatch(t)[1].ref - 1)
            /\ WritesBatch(t) =>
                  LET batch == CurrentBatch(t)
                      f == threads[t].file
                  IN /\ Len(threads'[t].results) = Len(batch)
                     /\ \A p \in 1..Len(files[f].entries) :
                           IF \E k \in 1..Len(batch) : batch[k].ref = p
                           THEN \A k \in 1..Len(batch) :
                                   batch[k].ref = p =>
                                       files'[f].entries[p].translated_text
                                           = threads'[t].results[k]
                           ELSE files'[f].entries[p] = files[f].entries[p]
            /\ (IsRun(t) /\ threads'[t] # threads[t] /\ ~WritesBatch(t)
                  /\ threads[t].pc \in {"batch", "indiv", "sleep", "save"}) =>
                  files'[threads[t].file].entries = files[threads[t].file].entries]_vars

\* the second batch of a file of three entries has been translated: the
\* first batch had two entries and their translations were its context
C28_Witness ==
    \E t \in RunThreads :
        LET th == threads[t] IN
        /\ th.pc = "sleep"
        /\ th.b = 2
        /\ Len(th.batches) = 2
        /\ Len(th.batches[1]) = 2
        /\ th.batches[2][1].ref = 3
        /\ th.entry_idx = 3
        /\ th.pass_results = <<<<"a">>, <<"a">>, <<"a">>>>
        /\ th.context = <<"a", "a">>


-----------------------------------------------------------------------------
(* The files of a run (SpecList) *)

elements(list) == {list[k] : k \in 1..Len(list)}

\* the positions of the members of a list in another list are increasing
in_list_order(sub, list) ==
    \A j, k \in 1..Len(sub) :
        j < k =>
            \A a, b \in 1..Len(list) : (list[a] = sub[j] /\ list[b] = sub[k]) => a < b

\* C29 (as claimed): when a run ends, every file that was in the list when it
\* started and is still in the list has been processed by the run, no file
\* has been processed twice, and the files of the start were processed in
\* the order of the list
C29_EveryListedFileProcessed ==
    \A t \in RunThreads :
        Reports(t) =>
            LET th == threads[t] IN
            /\ \A f \in elements(th.listed) :
                  f \in elements(batch_files) => f \in elements(th.processed)
            /\ \A j, k \in 1..Len(th.processed) :
                  th.processed[j] = th.processed[k] => j = k
            /\ in_list_order(th.processed, th.listed)


=============================================================================
